---- MODULE Spec2Model ----
(***************************************************************************)
(* Model of protoc-gen-grpc-gateway/descriptor/services.go: the pass that  *)
(* binds the annotated methods of the services of a file to an HTTP verb,  *)
(* a path template, path parameters and a body.                            *)
(*                                                                         *)
(* Strings that the code splits or compares with "" (field paths, body     *)
(* specifications) are sequences of one-character strings; a path template *)
(* is a sequence of segments, the empty sequence being the string "".      *)
(* Names that the code only copies are TLA+ strings.                       *)
(***************************************************************************)
EXTENDS Integers, Sequences, FiniteSets, TLC

VARIABLES
    files,  \* Registry.files: file name -> [desc, Services]
    call,   \* the last operation called, with its arguments
    ret     \* what that operation returned

vars == <<files, call, ret>>

----------------------------------------------------------------------------
(* Bounds of the model *)

\* longest field path / body string, in characters
MaxPathLen == 5
\* most variables in one path template
MaxVars == 2
\* most methods declared in one file, over all its services
MaxMethods == 3
\* most services declared in one file
MaxServices == 2

----------------------------------------------------------------------------
(* Strings *)

EmptyStr == <<>>
Dot == "."
Star == <<"*">>

\* every sequence over S of length at most n
RECURSIVE SeqsUpTo(_, _)
SeqsUpTo(S, n) ==
    IF n = 0 THEN {<<>>}
    ELSE LET shorter == SeqsUpTo(S, n - 1)
         IN shorter \cup {Append(s, x) : s \in {t \in shorter : Len(t) = n - 1}, x \in S}

\* strings.Split(s, sep) for a one-character separator
RECURSIVE Split(_, _)
Split(s, sep) ==
    IF \A i \in 1..Len(s) : s[i] # sep
    THEN <<s>>
    ELSE LET i == CHOOSE k \in 1..Len(s) :
                      s[k] = sep /\ \A j \in 1..(k - 1) : s[j] # sep
         IN <<SubSeq(s, 1, i - 1)>> \o Split(SubSeq(s, i + 1, Len(s)), sep)

\* strings.Join(parts, sep)
RECURSIVE Join(_, _)
Join(parts, sep) ==
    IF Len(parts) = 0 THEN <<>>
    ELSE IF Len(parts) = 1 THEN parts[1]
    ELSE parts[1] \o <<sep>> \o Join(Tail(parts), sep)

----------------------------------------------------------------------------
(* Errors and absent values *)

NoErr == [kind |-> "nil"]
IsErr(e) == e.kind # "nil"

NoField == [nil |-> TRUE]
NoMsg == [nil |-> TRUE]
NoBody == [nil |-> TRUE]
NoCustom == [nil |-> TRUE]
NoMethod == [nil |-> TRUE]
NoRule == [nil |-> TRUE]

AggregateTypes == {"TYPE_MESSAGE", "TYPE_GROUP"}

----------------------------------------------------------------------------
(* The registry of message types, as the load phase leaves it *)

Fld(name, type, typeName) == [Name |-> name, Type |-> type, TypeName |-> typeName]

\* FQMN and type references are sequences of name components; a leading ""
\* component is the leading "." of an absolute name.
ReqMsg ==
    [Name |-> "Req", FQMN |-> <<"", "pkg", "Req">>,
     Fields |-> << Fld(<<"a">>, "TYPE_MESSAGE", <<"", "pkg", "Sub">>),
                   Fld(<<"b">>, "TYPE_STRING", <<>>),
                   Fld(<<"a", "b">>, "TYPE_GROUP", <<"Grp">>),
                   Fld(<<"b", "a">>, "TYPE_MESSAGE", <<"", "pkg", "Gone">>),
                   Fld(<<"b", "b">>, "TYPE_ENUM", <<"", "pkg", "Kind">>) >>]

SubMsg ==
    [Name |-> "Sub", FQMN |-> <<"", "pkg", "Sub">>,
     Fields |-> << Fld(<<"b">>, "TYPE_INT64", <<>>),
                   Fld(<<"a">>, "TYPE_MESSAGE", <<"Req">>) >>]

GrpMsg ==
    [Name |-> "Grp", FQMN |-> <<"", "pkg", "Req", "Grp">>,
     Fields |-> << Fld(<<"b">>, "TYPE_BOOL", <<>>) >>]

AllMsgs == {ReqMsg, SubMsg, GrpMsg}

\* Registry.msgs: fully-qualified name -> message
Msgs == [n \in {m.FQMN : m \in AllMsgs} |-> CHOOSE m \in AllMsgs : m.FQMN = n]

ErrNoMessage(name) == [kind |-> "NoMessage", name |-> name]

\* Registry.LookupMsg(location, name): an absolute name is looked up as it is; a
\* relative one is tried under location, then under each shorter prefix of it.
RECURSIVE lookupFrom(_, _)
lookupFrom(components, name) ==
    IF Len(components) = 0
    THEN [err |-> ErrNoMessage(name), val |-> NoMsg]
    ELSE IF (components \o name) \in DOMAIN Msgs
    THEN [err |-> NoErr, val |-> Msgs[components \o name]]
    ELSE lookupFrom(SubSeq(components, 1, Len(components) - 1), name)

LookupMsg(location, name) ==
    IF Len(name) > 0 /\ name[1] = ""
    THEN IF name \in DOMAIN Msgs
         THEN [err |-> NoErr, val |-> Msgs[name]]
         ELSE [err |-> ErrNoMessage(name), val |-> NoMsg]
    ELSE lookupFrom(IF Len(location) > 0 /\ location[1] = ""
                    THEN location ELSE <<"">> \o location, name)

----------------------------------------------------------------------------
(* Field-path resolution *)

\* lookupField: the first field of msg named name, or nil
lookupField(msg, name) ==
    IF \E i \in 1..Len(msg.Fields) : msg.Fields[i].Name = name
    THEN msg.Fields[CHOOSE i \in 1..Len(msg.Fields) :
                        /\ msg.Fields[i].Name = name
                        /\ \A j \in 1..(i - 1) : msg.Fields[j].Name # name]
    ELSE NoField

ErrNotAggregate(name, path) == [kind |-> "NotAggregate", field |-> name, path |-> path]
ErrNoFieldFound(path, rootName) == [kind |-> "NoField", path |-> path, msg |-> rootName]

\* the message searched at step i of resolveFiledPath (lines 233-245)
descend(msg, result, i, path) ==
    IF i > 1
    THEN LET f == result[i - 1].Target
         IN IF f.Type \in AggregateTypes
            THEN LookupMsg(msg.FQMN, f.TypeName)
            ELSE [err |-> ErrNotAggregate(f.Name, path), val |-> NoMsg]
    ELSE [err |-> NoErr, val |-> msg]

\* missingField naming the message in which the lookup failed
missingFieldIntermediate(root, msg, path) == ErrNoFieldFound(path, msg.Name)

\* the error of a missing field (line 250)
missingField(root, msg, path) == ErrNoFieldFound(path, root.Name)

RECURSIVE resolveLoop(_, _, _, _, _, _)

\* lines 249-252: lookupField has returned f for component i, searched in msg
afterLookupField(root, path, comps, i, msg, result, f) ==
    IF f = NoField
    THEN [err |-> missingField(root, msg, path), val |-> <<>>]
    ELSE resolveLoop(root, path, comps, i + 1, msg,
                     Append(result, [Name |-> comps[i], Target |-> f]))

\* lines 239-248: m is the message to search for component i, or the error
afterDescend(root, path, comps, i, result, m) ==
    IF IsErr(m.err)
    THEN [err |-> m.err, val |-> <<>>]
    ELSE afterLookupField(root, path, comps, i, m.val, result,
                          lookupField(m.val, comps[i]))

\* the range loop of resolveFiledPath (lines 232-253)
resolveLoop(root, path, comps, i, msg, result) ==
    IF i > Len(comps)
    THEN [err |-> NoErr, val |-> result]
    ELSE afterDescend(root, path, comps, i, result, descend(msg, result, i, path))

\* Registry.resolveFiledPath(msg, path)
resolveFiledPath(msg, path) ==
    IF path = EmptyStr
    THEN [err |-> NoErr, val |-> <<>>]
    ELSE resolveLoop(msg, path, Split(path, Dot), 1, msg, <<>>)

----------------------------------------------------------------------------
(* Path templates: the httprule package, seen from its boundary *)

Lit(text) == [kind |-> "lit", val |-> text]
Var(path) == [kind |-> "var", val |-> path]
BadSeg == [kind |-> "bad", val |-> <<>>]

ErrParse == [kind |-> "Parse"]

\* httprule.Parse(pathTemplate) followed by Compile(): the template's variables,
\* in template order, or a parse error for a malformed (or empty) string.
Parse(pathTemplate) ==
    IF pathTemplate = EmptyStr \/ \E i \in 1..Len(pathTemplate) : pathTemplate[i].kind = "bad"
    THEN [err |-> ErrParse, val |-> [Pool |-> <<>>, Fields |-> <<>>]]
    ELSE LET vs == SelectSeq(pathTemplate, LAMBDA seg : seg.kind = "var")
             ls == SelectSeq(pathTemplate, LAMBDA seg : seg.kind = "lit")
         IN [err |-> NoErr,
             val |-> [Pool |-> [i \in 1..Len(ls) |-> ls[i].val],
                      Fields |-> [i \in 1..Len(vs) |-> vs[i].val]]]

----------------------------------------------------------------------------
(* Annotation extraction *)

ErrExtension == [kind |-> "GetExtension"]
ErrNotHttpRule == [kind |-> "NotHttpRule"]

\* extractAPIOptions without the HasExtension test of line 144
extractAPIOptionsNoExtCheck(meth) ==
    IF ~meth.Options.present
    THEN [err |-> NoErr, val |-> NoRule]
    ELSE IF meth.Options.extErr
    THEN [err |-> ErrExtension, val |-> NoRule]
    ELSE IF ~meth.Options.isRule
    THEN [err |-> ErrNotHttpRule, val |-> NoRule]
    ELSE [err |-> NoErr, val |-> meth.Options.rule]

\* extractAPIOptions(meth)
extractAPIOptions(meth) ==
    IF ~meth.Options.present
    THEN [err |-> NoErr, val |-> NoRule]
    ELSE IF ~meth.Options.hasExt
    THEN [err |-> NoErr, val |-> NoRule]
    ELSE IF meth.Options.extErr
    THEN [err |-> ErrExtension, val |-> NoRule]
    ELSE IF ~meth.Options.isRule
    THEN [err |-> ErrNotHttpRule, val |-> NoRule]
    ELSE [err |-> NoErr, val |-> meth.Options.rule]

----------------------------------------------------------------------------
(* Parameters and bodies *)

ErrInvalidAccessList(path) == [kind |-> "InvalidAccessList", path |-> path]
ErrAggregateParam(type, svcName, methName, path) ==
    [kind |-> "AggregateParam", type |-> type, service |-> svcName,
     method |-> methName, path |-> path]

\* rejectsTarget without the TYPE_GROUP case
rejectsMessageOnly(target) == target.Type = "TYPE_MESSAGE"

\* the type switch of newParam (lines 169-172): whether target may not be a parameter
rejectsTarget(target) == target.Type \in AggregateTypes

NoParam == [nil |-> TRUE]

\* lines 164-177 of newParam: the path has resolved to fields
paramOf(meth, path, fields) ==
    IF Len(fields) = 0
    THEN [err |-> ErrInvalidAccessList(path), val |-> NoParam]
    ELSE IF rejectsTarget(fields[Len(fields)].Target)
    THEN [err |-> ErrAggregateParam(fields[Len(fields)].Target.Type, meth.Service,
                                    meth.MethodDescriptorProto.Name, path),
          val |-> NoParam]
    ELSE [err |-> NoErr,
          val |-> [FieldPath |-> fields,
                   Method |-> meth.MethodDescriptorProto.Name,
                   Target |-> fields[Len(fields)].Target]]

\* lines 160-163 of newParam
afterResolveParam(meth, path, r) ==
    IF IsErr(r.err)
    THEN [err |-> r.err, val |-> NoParam]
    ELSE paramOf(meth, path, r.val)

\* Registry.newParam(meth, path)
newParam(meth, path) ==
    afterResolveParam(meth, path, resolveFiledPath(meth.RequestType, path))

JsonBody(fieldPath) ==
    [DecoderFactoryExpr |-> "json.NewDecoder",
     DecoderImports |-> <<[Path |-> "encoding/json", Name |-> "json"]>>,
     FieldPath |-> fieldPath]

\* lines 197-210 of newBody
afterResolveBody(r) ==
    IF IsErr(r.err)
    THEN [err |-> r.err, val |-> NoBody]
    ELSE [err |-> NoErr, val |-> JsonBody(r.val)]

\* Registry.newBody(meth, path)
newBody(meth, path) ==
    IF path = EmptyStr
    THEN [err |-> NoErr, val |-> NoBody]
    ELSE IF path = Star
    THEN [err |-> NoErr, val |-> JsonBody(<<>>)]
    ELSE afterResolveBody(resolveFiledPath(meth.RequestType, path))

----------------------------------------------------------------------------
(* Method binding *)

ErrBodyWithVerb(verb, methName) == [kind |-> "BodyNotAllowed", verb |-> verb, method |-> methName]
ErrNoPattern == [kind |-> "NoPattern"]
ErrClientStreamingParam == [kind |-> "ClientStreamingParam"]

Picked(verb, tmpl) == [err |-> NoErr, httpMethod |-> verb, pathTemplate |-> tmpl]
NotPicked(e) == [err |-> e, httpMethod |-> "", pathTemplate |-> EmptyStr]

\* selectPattern with the delete case moved before the put case
selectPatternDeleteFirst(md, opts) ==
    IF opts.Get # EmptyStr
    THEN IF opts.Body # EmptyStr
         THEN NotPicked(ErrBodyWithVerb("GET", md.Name))
         ELSE Picked("GET", opts.Get)
    ELSE IF opts.Delete # EmptyStr
    THEN IF opts.Body # EmptyStr
         THEN NotPicked(ErrBodyWithVerb("DELETE", md.Name))
         ELSE Picked("DELETE", opts.Delete)
    ELSE IF opts.Put # EmptyStr
    THEN Picked("PUT", opts.Put)
    ELSE IF opts.Post # EmptyStr
    THEN Picked("POST", opts.Post)
    ELSE IF opts.Patch # EmptyStr
    THEN Picked("PATCH", opts.Patch)
    ELSE IF opts.Custom # NoCustom
    THEN Picked(opts.Custom.Kind, opts.Custom.Path)
    ELSE NotPicked(ErrNoPattern)

\* the switch of newMethod (lines 58-92): the verb and the template string
selectPattern(md, opts) ==
    IF opts.Get # EmptyStr
    THEN IF opts.Body # EmptyStr
         THEN NotPicked(ErrBodyWithVerb("GET", md.Name))
         ELSE Picked("GET", opts.Get)
    ELSE IF opts.Put # EmptyStr
    THEN Picked("PUT", opts.Put)
    ELSE IF opts.Post # EmptyStr
    THEN Picked("POST", opts.Post)
    ELSE IF opts.Delete # EmptyStr
    THEN IF opts.Body # EmptyStr
         THEN NotPicked(ErrBodyWithVerb("DELETE", md.Name))
         ELSE Picked("DELETE", opts.Delete)
    ELSE IF opts.Patch # EmptyStr
    THEN Picked("PATCH", opts.Patch)
    ELSE IF opts.Custom # NoCustom
    THEN Picked(opts.Custom.Kind, opts.Custom.Path)
    ELSE NotPicked(ErrNoPattern)

\* streamingConflict that allows one variable
streamingConflictOffByOne(md, tmpl) == md.ClientStreaming /\ Len(tmpl.Fields) > 1

\* the guard of line 100
streamingConflict(md, tmpl) == md.ClientStreaming /\ Len(tmpl.Fields) > 0

RECURSIVE paramLoop(_, _, _)

\* afterNewParam that puts the new parameter first
afterNewParamPrepend(meth, fields, i, p) ==
    IF IsErr(p.err)
    THEN [err |-> p.err, val |-> NoMethod]
    ELSE paramLoop([meth EXCEPT !.PathParams = <<p.val>> \o @], fields, i + 1)

\* lines 124-127: newParam has returned p for fields[i]
afterNewParam(meth, fields, i, p) ==
    IF IsErr(p.err)
    THEN [err |-> p.err, val |-> NoMethod]
    ELSE paramLoop([meth EXCEPT !.PathParams = Append(@, p.val)], fields, i + 1)

\* the loop over tmpl.Fields of newMethod (lines 122-128)
paramLoop(meth, fields, i) ==
    IF i > Len(fields)
    THEN [err |-> NoErr, val |-> meth]
    ELSE afterNewParam(meth, fields, i, newParam(meth, fields[i]))

\* lines 133-137 of newMethod: newBody has returned b
afterNewBody(meth, b) ==
    IF IsErr(b.err)
    THEN [err |-> b.err, val |-> NoMethod]
    ELSE [err |-> NoErr, val |-> [meth EXCEPT !.Body = b.val]]

\* line 132 of newMethod, after the loop over the template's variables
afterParams(withParams, body) ==
    IF IsErr(withParams.err)
    THEN withParams
    ELSE afterNewBody(withParams.val, newBody(withParams.val, body))

\* lines 113-120 of newMethod
methodOf(svc, md, sel, tmpl, requestType, responseType) ==
    [Service |-> svc.Name,
     MethodDescriptorProto |-> md,
     PathTmpl |-> tmpl,
     HTTPMethod |-> sel.httpMethod,
     RequestType |-> requestType,
     ResponseType |-> responseType,
     PathParams |-> <<>>,
     Body |-> NoBody]

\* lines 108-137 of newMethod: the response type has been looked up
afterResponseType(svc, md, opts, sel, tmpl, requestType, responseType) ==
    IF IsErr(responseType.err)
    THEN [err |-> responseType.err, val |-> NoMethod]
    ELSE afterParams(paramLoop(methodOf(svc, md, sel, tmpl, requestType, responseType.val),
                               tmpl.Fields, 1),
                     opts.Body)

\* lines 104-108 of newMethod: the request type has been looked up
afterRequestType(svc, md, opts, sel, tmpl, requestType) ==
    IF IsErr(requestType.err)
    THEN [err |-> requestType.err, val |-> NoMethod]
    ELSE afterResponseType(svc, md, opts, sel, tmpl, requestType.val,
                           LookupMsg(svc.Package, md.OutputType))

\* lines 94-104 of newMethod: the template string has been parsed
afterParse(svc, md, opts, sel, parsed) ==
    IF IsErr(parsed.err)
    THEN [err |-> parsed.err, val |-> NoMethod]
    ELSE IF streamingConflict(md, parsed.val)
    THEN [err |-> ErrClientStreamingParam, val |-> NoMethod]
    ELSE afterRequestType(svc, md, opts, sel, parsed.val,
                          LookupMsg(svc.Package, md.InputType))

\* lines 58-94 of newMethod: the pattern has been selected
afterSelect(svc, md, opts, sel) ==
    IF IsErr(sel.err)
    THEN [err |-> sel.err, val |-> NoMethod]
    ELSE afterParse(svc, md, opts, sel, Parse(sel.pathTemplate))

\* Registry.newMethod(svc, md, opts)
newMethod(svc, md, opts) == afterSelect(svc, md, opts, selectPattern(md, opts))

----------------------------------------------------------------------------
(* Loading the services of a file *)

ErrNoSuchFile(name) == [kind |-> "NoSuchFile", file |-> name]

RECURSIVE methodLoop(_, _, _, _)

\* lines 38-42: newMethod has returned meth for mds[i]; tried collects the names
\* of the methods newMethod was called on
afterNewMethod(svc, mds, i, tried, meth) ==
    IF IsErr(meth.err)
    THEN [err |-> meth.err, svc |-> svc, tried |-> tried]
    ELSE methodLoop([svc EXCEPT !.Methods = Append(@, meth.val)], mds, i + 1, tried)

\* lines 30-38: extractAPIOptions has returned opts for mds[i]
afterExtract(svc, mds, i, tried, opts) ==
    IF IsErr(opts.err)
    THEN [err |-> opts.err, svc |-> svc, tried |-> tried]
    ELSE IF opts.val = NoRule
    THEN methodLoop(svc, mds, i + 1, tried)
    ELSE afterNewMethod(svc, mds, i, Append(tried, mds[i].Name),
                        newMethod(svc, mds[i], opts.val))

\* the loop over sd.GetMethod() of loadServices (lines 28-43)
methodLoop(svc, mds, i, tried) ==
    IF i > Len(mds)
    THEN [err |-> NoErr, svc |-> svc, tried |-> tried]
    ELSE afterExtract(svc, mds, i, tried, extractAPIOptions(mds[i]))

\* keepService without the test of line 44
keepServiceAlways(svcs, svc) == Append(svcs, svc)

\* lines 44-47: a service with no method is not kept
keepService(svcs, svc) ==
    IF Len(svc.Methods) = 0 THEN svcs ELSE Append(svcs, svc)

\* lines 24-27: the service under construction
newService(fileName, desc, sd) ==
    [File |-> fileName, Package |-> desc.Package, Name |-> sd.Name,
     ServiceDescriptorProto |-> sd, Methods |-> <<>>]

RECURSIVE serviceLoop(_, _, _, _, _)

\* lines 44-48: the methods of service k are done
afterMethods(fileName, desc, k, svcs, done) ==
    IF IsErr(done.err)
    THEN [err |-> done.err, svcs |-> svcs, tried |-> done.tried]
    ELSE serviceLoop(fileName, desc, k + 1, keepService(svcs, done.svc), done.tried)

\* the loop over file.GetService() of loadServices (lines 23-48)
serviceLoop(fileName, desc, k, svcs, tried) ==
    IF k > Len(desc.Service)
    THEN [err |-> NoErr, svcs |-> svcs, tried |-> tried]
    ELSE afterMethods(fileName, desc, k, svcs,
             methodLoop(newService(fileName, desc, desc.Service[k]),
                        desc.Service[k].Method, 1, tried))

\* publish that assigns the services built so far also on an error
publishPartial(r, targetFile, res) ==
    [err |-> res.err,
     files |-> [r EXCEPT ![targetFile].Services = res.svcs],
     tried |-> res.tried]

\* line 49 and the returns of loadServices: file.Services is assigned when the
\* loops ended without an error
publish(r, targetFile, res) ==
    IF IsErr(res.err)
    THEN [err |-> res.err, files |-> r, tried |-> res.tried]
    ELSE [err |-> NoErr,
          files |-> [r EXCEPT ![targetFile].Services = res.svcs],
          tried |-> res.tried]

\* Registry.loadServices(targetFile) on the files r: the error returned, the
\* files afterwards
loadServices(r, targetFile) ==
    IF targetFile \notin DOMAIN r
    THEN [err |-> ErrNoSuchFile(targetFile), files |-> r, tried |-> <<>>]
    ELSE publish(r, targetFile, serviceLoop(targetFile, r[targetFile].desc, 1, <<>>, <<>>))

----------------------------------------------------------------------------
(* Inputs *)

PathChars == {"a", "b", "."}

\* every field path of at most MaxPathLen characters
Paths == SeqsUpTo(PathChars, MaxPathLen)

\* body specifications: the empty one, "*", and the field paths
BodySpecs == Paths \cup {Star}

Rule(get, put, post, delete, patch, custom, body) ==
    [Get |-> get, Put |-> put, Post |-> post, Delete |-> delete, Patch |-> patch,
     Custom |-> custom, Body |-> body]

CustomPattern(kind, path) == [Kind |-> kind, Path |-> path]

\* MethodOptions: nil, without the http extension, with an undecodable one, with
\* one that is no HttpRule, with an HttpRule
OptNil == [present |-> FALSE, hasExt |-> FALSE, extErr |-> FALSE, isRule |-> FALSE, rule |-> NoRule]
OptNoExt == [OptNil EXCEPT !.present = TRUE]
OptExtErr == [OptNoExt EXCEPT !.hasExt = TRUE, !.extErr = TRUE]
OptNotRule == [OptNoExt EXCEPT !.hasExt = TRUE]
OptRule(rule) == [OptNoExt EXCEPT !.hasExt = TRUE, !.isRule = TRUE, !.rule = rule]

Md(name, options, streaming, in, out) ==
    [Name |-> name, Options |-> options, ClientStreaming |-> streaming,
     InputType |-> in, OutputType |-> out]

ReqRef == <<"", "pkg", "Req">>
SubRef == <<"", "pkg", "Sub">>
GoneRef == <<"", "pkg", "Gone">>

\* the service the single-method calls bind for
StubSvc ==
    [File |-> "a.proto", Package |-> <<"pkg">>, Name |-> "Svc",
     ServiceDescriptorProto |-> [Name |-> "Svc", Method |-> <<>>], Methods |-> <<>>]

\* a method under construction, as newMethod hands it to newParam and newBody
StubMeth(msg) ==
    [Service |-> "Svc",
     MethodDescriptorProto |-> Md("Echo", OptNil, FALSE, msg.FQMN, SubRef),
     PathTmpl |-> [Pool |-> <<>>, Fields |-> <<>>],
     HTTPMethod |-> "POST",
     RequestType |-> msg,
     ResponseType |-> SubMsg,
     PathParams |-> <<>>,
     Body |-> NoBody]

\* the template strings a pattern field named name is given when the verb
\* selection is exercised: unset, literal only, one variable
FieldTemplates(name) == {EmptyStr, <<Lit(name)>>, <<Lit(name), Var(<<"b">>)>>}

CustomKinds == {"GET", "DELETE", "LOCK"}

\* scalar, nested scalar, message, group, enum, missing, descent through a
\* scalar, missing in a nested message, nested twice, unregistered type
VarPaths ==
    { <<"b">>, <<"a", ".", "b">>, <<"a">>, <<"a", "b">>, <<"b", "b">>, <<"a", "a">>,
      <<"b", ".", "b">>, <<"a", ".", "a", "b">>, <<"a", ".", "a", ".", "b">>,
      <<"b", "a", ".", "b">> }

\* the template string with the variables ps, in that order
VarTemplate(ps) == <<Lit("v1")>> \o [i \in 1..Len(ps) |-> Var(ps[i])]

\* a malformed template string
BadTemplate == <<Lit("v1"), BadSeg>>

\* the bodies given to the templates with variables
BindBodies == {EmptyStr, Star, <<"b">>, <<"a", ".", "b">>, <<"a", "a">>}

\* the method descriptors Options can make of one method
OptionInputs ==
    {OptNil, OptNoExt, OptExtErr, OptNotRule}
        \cup {OptRule(o) : o \in {Rule(<<Lit("get")>>, EmptyStr, EmptyStr, EmptyStr, EmptyStr, NoCustom, EmptyStr)}}

----------------------------------------------------------------------------
(* Files *)

GetOne == Rule(<<Lit("v1"), Var(<<"b">>)>>, EmptyStr, EmptyStr, EmptyStr, EmptyStr, NoCustom, EmptyStr)
PostAll == Rule(EmptyStr, EmptyStr, <<Lit("v1")>>, EmptyStr, EmptyStr, NoCustom, Star)
GetBody == Rule(<<Lit("v1")>>, EmptyStr, EmptyStr, EmptyStr, EmptyStr, NoCustom, <<"b">>)

\* the options of the methods a file declares: three without a usable annotation
\* (one of them malformed), two that bind, one that newMethod rejects
MethodKinds == {OptNil, OptNoExt, OptNotRule, OptRule(GetOne), OptRule(PostAll), OptRule(GetBody)}

MethodName(i) == "M" \o ToString(i)
ServiceName(k) == "S" \o ToString(k)

\* the descriptor of a file that declares s services and n methods: method i has
\* options kinds[i] and belongs to service owner[i]
FileDesc(name, s, n, kinds, owner) ==
    [Name |-> name, Package |-> <<"pkg">>,
     Service |->
        [k \in 1..s |->
            LET idx == SelectSeq([i \in 1..n |-> i], LAMBDA i : owner[i] = k)
            IN [Name |-> ServiceName(k),
                Method |-> [j \in 1..Len(idx) |->
                               Md(MethodName(idx[j]), kinds[idx[j]], FALSE, ReqRef, SubRef)]]]]

NewFile(desc) == [desc |-> desc, Services |-> <<>>]

\* the descriptor of a second file, with one service of one method
OtherDesc(name) == FileDesc(name, 1, 1, <<OptRule(PostAll)>>, <<1>>)

\* that file, already loaded
OtherFile(name) ==
    loadServices([f \in {name} |-> NewFile(OtherDesc(name))], name).files[name]

TargetFiles == {"a.proto", "b.proto", "c.proto"}

----------------------------------------------------------------------------
(* Single calls of the binding functions: each behaviour is one call, made on *)
(* the idle registry                                                         *)

NoCall == [op |-> "none"]
NoRet == [err |-> NoErr]

\* no file is loaded
Init ==
    /\ files = [f \in {} |-> NewFile(OtherDesc(f))]
    /\ call = NoCall
    /\ ret = NoRet

ResolveFiledPath ==
    /\ call = NoCall
    /\ \E msg \in AllMsgs, path \in Paths :
           /\ call' = [op |-> "resolveFiledPath", msg |-> msg, path |-> path]
           /\ ret' = [err |-> resolveFiledPath(msg, path).err,
                      fields |-> resolveFiledPath(msg, path).val]
           /\ UNCHANGED files

NewParam ==
    /\ call = NoCall
    /\ \E msg \in AllMsgs, path \in Paths :
           /\ call' = [op |-> "newParam", meth |-> StubMeth(msg), path |-> path]
           /\ ret' = newParam(StubMeth(msg), path)
           /\ UNCHANGED files

NewBody ==
    /\ call = NoCall
    /\ \E msg \in AllMsgs, path \in BodySpecs :
           /\ call' = [op |-> "newBody", meth |-> StubMeth(msg), path |-> path]
           /\ ret' = newBody(StubMeth(msg), path)
           /\ UNCHANGED files

ExtractAPIOptions ==
    /\ call = NoCall
    /\ \E o \in OptionInputs :
           /\ call' = [op |-> "extractAPIOptions", meth |-> Md("Echo", o, FALSE, ReqRef, SubRef)]
           /\ ret' = extractAPIOptions(Md("Echo", o, FALSE, ReqRef, SubRef))
           /\ UNCHANGED files

CallNewMethod(svc, md, opts) ==
    /\ call' = [op |-> "newMethod", svc |-> svc, md |-> md, opts |-> opts]
    /\ ret' = newMethod(svc, md, opts)
    /\ UNCHANGED files

\* newMethod on annotations that set any combination of the pattern fields
NewMethodPatterns ==
    /\ call = NoCall
    /\ \E g \in FieldTemplates("get"), pu \in FieldTemplates("put"),
       po \in FieldTemplates("post"), d \in FieldTemplates("delete"),
       pa \in FieldTemplates("patch"),
       c \in {NoCustom} \cup {CustomPattern(k, t) : k \in CustomKinds, t \in FieldTemplates("custom")},
       b \in {EmptyStr, Star, <<"b">>}, st \in BOOLEAN :
        LET opts == Rule(g, pu, po, d, pa, c, b)
        IN CallNewMethod(StubSvc, Md("Echo", OptRule(opts), st, ReqRef, SubRef), opts)

\* newMethod on annotations that set one pattern field, over the templates, the
\* bodies and the request and response types
NewMethodTemplates ==
    /\ call = NoCall
    /\ \E t \in {VarTemplate(ps) : ps \in SeqsUpTo(VarPaths, MaxVars)} \cup {BadTemplate},
       b \in BindBodies, isGet \in BOOLEAN, st \in BOOLEAN,
       in \in {ReqRef, <<"Sub">>, GoneRef}, out \in {SubRef, GoneRef} :
        LET opts == IF isGet
                    THEN Rule(t, EmptyStr, EmptyStr, EmptyStr, EmptyStr, NoCustom, EmptyStr)
                    ELSE Rule(EmptyStr, EmptyStr, t, EmptyStr, EmptyStr, NoCustom, b)
        IN CallNewMethod(StubSvc, Md("Echo", OptRule(opts), st, in, out), opts)

NewMethod == NewMethodPatterns \/ NewMethodTemplates

Next == ResolveFiledPath \/ NewParam \/ NewBody \/ ExtractAPIOptions \/ NewMethod

Spec == Init /\ [][Next]_vars

----------------------------------------------------------------------------
(* Loading the services of the files of a registry *)

NonDecreasing(owner, n) == \A i \in 1..n, j \in 1..n : i <= j => owner[i] <= owner[j]

InitLoad ==
    /\ \E s \in 0..MaxServices, n \in 0..MaxMethods :
        \E kinds \in [1..n -> MethodKinds], owner \in [1..n -> 1..s] :
            /\ NonDecreasing(owner, n)
            /\ files = [f \in {"a.proto", "b.proto"} |->
                           IF f = "a.proto"
                           THEN NewFile(FileDesc("a.proto", s, n, kinds, owner))
                           ELSE OtherFile(f)]
    /\ call = NoCall
    /\ ret = NoRet

LoadServices ==
    \E targetFile \in TargetFiles :
        LET res == loadServices(files, targetFile)
        IN /\ call' = [op |-> "loadServices", targetFile |-> targetFile]
           /\ ret' = [err |-> res.err, tried |-> res.tried]
           /\ files' = res.files

NextLoad == LoadServices

SpecLoad == InitLoad /\ [][NextLoad]_vars

----------------------------------------------------------------------------
(* What the claims speak of *)

IsCall(op) == call.op = op
Failed == IsErr(ret.err)

\* a method without an HTTP-rule annotation: Options nil or without E_Http
Unannotated(md) == ~md.Options.present \/ ~md.Options.hasExt

\* the pattern fields of an annotation, in priority order
PatternOrder == <<"get", "put", "post", "delete", "patch", "custom">>

IsSet(opts, f) ==
    CASE f = "get" -> opts.Get # EmptyStr
      [] f = "put" -> opts.Put # EmptyStr
      [] f = "post" -> opts.Post # EmptyStr
      [] f = "delete" -> opts.Delete # EmptyStr
      [] f = "patch" -> opts.Patch # EmptyStr
      [] f = "custom" -> opts.Custom # NoCustom

SetPatterns(opts) == {i \in 1..Len(PatternOrder) : IsSet(opts, PatternOrder[i])}

\* the set pattern field of highest priority, or "none"
FirstPattern(opts) ==
    IF SetPatterns(opts) = {} THEN "none"
    ELSE PatternOrder[CHOOSE i \in SetPatterns(opts) : \A j \in SetPatterns(opts) : i <= j]

\* the HTTP verb an annotation gives its method
VerbOf(opts) ==
    CASE FirstPattern(opts) = "get" -> "GET"
      [] FirstPattern(opts) = "put" -> "PUT"
      [] FirstPattern(opts) = "post" -> "POST"
      [] FirstPattern(opts) = "delete" -> "DELETE"
      [] FirstPattern(opts) = "patch" -> "PATCH"
      [] FirstPattern(opts) = "custom" -> opts.Custom.Kind
      [] OTHER -> ""

\* the template string an annotation gives its method
TemplateOf(opts) ==
    CASE FirstPattern(opts) = "get" -> opts.Get
      [] FirstPattern(opts) = "put" -> opts.Put
      [] FirstPattern(opts) = "post" -> opts.Post
      [] FirstPattern(opts) = "delete" -> opts.Delete
      [] FirstPattern(opts) = "patch" -> opts.Patch
      [] FirstPattern(opts) = "custom" -> opts.Custom.Path
      [] OTHER -> EmptyStr

\* the get or delete field is the one selected, and a body is specified
BodyForbidden(opts) == FirstPattern(opts) \in {"get", "delete"} /\ opts.Body # EmptyStr

\* the variables of a template string, in template order
VariablesOf(tmpl) ==
    LET vs == SelectSeq(tmpl, LAMBDA seg : seg.kind = "var")
    IN [i \in 1..Len(vs) |-> vs[i].val]

\* the names of the components of a field path
NamesOf(fieldPath) == [i \in 1..Len(fieldPath) |-> fieldPath[i].Name]

\* every component's Target is the field of its name in the message reached by
\* the components before it
RECURSIVE Walks(_, _)
Walks(msg, fieldPath) ==
    \/ Len(fieldPath) = 0
    \/ /\ fieldPath[1].Target = lookupField(msg, fieldPath[1].Name)
       /\ \/ Len(fieldPath) = 1
          \/ /\ ~IsErr(LookupMsg(msg.FQMN, fieldPath[1].Target.TypeName).err)
             /\ Walks(LookupMsg(msg.FQMN, fieldPath[1].Target.TypeName).val, Tail(fieldPath))

\* some component of comps names no field of the message searched for it, all
\* the components before it having been found
RECURSIVE MissesField(_, _)
MissesField(msg, comps) ==
    \/ lookupField(msg, comps[1]) = NoField
    \/ /\ Len(comps) > 1
       /\ lookupField(msg, comps[1]).Type \in AggregateTypes
       /\ ~IsErr(LookupMsg(msg.FQMN, lookupField(msg, comps[1]).TypeName).err)
       /\ MissesField(LookupMsg(msg.FQMN, lookupField(msg, comps[1]).TypeName).val, Tail(comps))

----------------------------------------------------------------------------
(* Claims about binding one method *)

\* C2: a method whose annotation gives the verb GET or DELETE together with a
\* non-empty body is not bound: newMethod returns an error and no Method,
\* whatever the template, the streaming flag and the request message are.
C2_GetDeleteBodyFails ==
    (IsCall("newMethod") /\ VerbOf(call.opts) \in {"GET", "DELETE"} /\ call.opts.Body # EmptyStr)
        => (Failed /\ ret.val = NoMethod)

\* C3: every Method newMethod returns with HTTPMethod GET or DELETE has no Body,
\* also when the verb comes from the custom pattern.
C3_GetDeleteNoBody ==
    (IsCall("newMethod") /\ ~Failed /\ ret.val.HTTPMethod \in {"GET", "DELETE"})
        => ret.val.Body = NoBody

\* C4: when newMethod compiles the template of a client-streaming method and the
\* template has a variable, it fails with the streaming/parameter-conflict
\* error; so a bound client-streaming Method has no PathParams.
C4_StreamingNoParams ==
    IsCall("newMethod") =>
        /\ ( /\ call.md.ClientStreaming
             /\ FirstPattern(call.opts) # "none"
             /\ ~BodyForbidden(call.opts)
             /\ ~IsErr(Parse(TemplateOf(call.opts)).err)
             /\ Len(VariablesOf(TemplateOf(call.opts))) >= 1 )
           => (ret.err = ErrClientStreamingParam /\ ret.val = NoMethod)
        /\ (~Failed /\ ret.val.MethodDescriptorProto.ClientStreaming)
           => ret.val.PathParams = <<>>

C4_Witness ==
    /\ IsCall("newMethod")
    /\ call.md.ClientStreaming
    /\ FirstPattern(call.opts) = "post"
    /\ Len(VariablesOf(call.opts.Post)) = 1
    /\ ret.err = ErrClientStreamingParam

\* C5: a Parameter newParam returns has a non-empty FieldPath whose last Target
\* is the Parameter's Target, of a type that is neither message nor group; a
\* path that resolves to a message or group field makes newParam fail with
\* the aggregate-type error, and no bound Method has such a parameter.
C5_ParamTargetScalar ==
    /\ IsCall("newParam") =>
        /\ ~Failed =>
            /\ Len(ret.val.FieldPath) > 0
            /\ ret.val.FieldPath[Len(ret.val.FieldPath)].Target = ret.val.Target
            /\ ret.val.Target.Type \notin AggregateTypes
        /\ LET r == resolveFiledPath(call.meth.RequestType, call.path)
           IN (~IsErr(r.err) /\ Len(r.val) > 0 /\ r.val[Len(r.val)].Target.Type \in AggregateTypes)
                => (ret.err.kind = "AggregateParam" /\ ret.val = NoParam)
    /\ (IsCall("newMethod") /\ ~Failed) =>
        \A i \in 1..Len(ret.val.PathParams) :
            ret.val.PathParams[i].Target.Type \notin AggregateTypes

C5_Witness ==
    /\ IsCall("newParam")
    /\ call.path = <<"a", "b">>
    /\ call.meth.RequestType = ReqMsg
    /\ ret.err.kind = "AggregateParam"
    /\ ret.err.type = "TYPE_GROUP"

\* C6: when a component of the path names no field of the message searched for
\* it, at the first step or a nested one, resolveFiledPath returns the
\* not-found error with the whole path and the name of the root message, and
\* no field path.
C6_NotFoundNamesRoot ==
    (IsCall("resolveFiledPath") /\ call.path # EmptyStr /\ MissesField(call.msg, Split(call.path, Dot)))
        => /\ ret.err = ErrNoFieldFound(call.path, call.msg.Name)
           /\ ret.fields = <<>>

C6_Witness ==
    /\ IsCall("resolveFiledPath")
    /\ call.msg = ReqMsg
    /\ call.path = <<"a", ".", "a", "b">>
    /\ ret.err.kind = "NoField"
    /\ ret.err.msg = "Req"

\* C7: a bound Method has one Parameter per variable of its template, in
\* template order; the names of the i-th Parameter's FieldPath joined with "."
\* are the i-th variable, and every component's Target is the field of its
\* name in the message reached by the components before it.
C7_ParamsFollowTemplate ==
    (IsCall("newMethod") /\ ~Failed) =>
        LET variables == VariablesOf(TemplateOf(call.opts))
        IN /\ Len(ret.val.PathParams) = Len(variables)
           /\ \A i \in 1..Len(variables) :
                /\ Join(NamesOf(ret.val.PathParams[i].FieldPath), Dot) = variables[i]
                /\ Walks(ret.val.RequestType, ret.val.PathParams[i].FieldPath)

C7_Witness ==
    /\ IsCall("newMethod")
    /\ ~Failed
    /\ VariablesOf(TemplateOf(call.opts)) = << <<"a", ".", "b">>, <<"b">> >>
    /\ Len(ret.val.PathParams) = 2
    /\ Len(ret.val.PathParams[1].FieldPath) = 2

\* C9: the verb and the template come from the first set pattern field in the
\* order get, put, post, delete, patch, custom: that field alone decides
\* HTTPMethod, the template and whether the body check applies; with no
\* pattern field set newMethod fails with the no-pattern error.
C9_FirstPatternWins ==
    IsCall("newMethod") =>
        /\ (FirstPattern(call.opts) = "none") <=> (ret.err = ErrNoPattern)
        /\ BodyForbidden(call.opts) <=> (ret.err = ErrBodyWithVerb(VerbOf(call.opts), call.md.Name))
        /\ ret.err.kind = "BodyNotAllowed" => BodyForbidden(call.opts)
        /\ ( /\ FirstPattern(call.opts) # "none"
             /\ ~BodyForbidden(call.opts)
             /\ IsErr(Parse(TemplateOf(call.opts)).err) )
           => ret.err = ErrParse
        /\ ~Failed =>
            /\ ret.val.HTTPMethod = VerbOf(call.opts)
            /\ ret.val.PathTmpl = Parse(TemplateOf(call.opts)).val

C9_Witness ==
    /\ IsCall("newMethod")
    /\ call.opts.Get = EmptyStr
    /\ call.opts.Put # EmptyStr
    /\ call.opts.Delete # EmptyStr
    /\ call.opts.Body # EmptyStr
    /\ ~Failed
    /\ ret.val.HTTPMethod = "PUT"

----------------------------------------------------------------------------
(* Claims about loading the services of a file *)

\* the methods of a file in declaration order, each with the service that
\* declares it
RECURSIVE Flatten(_, _, _)
Flatten(fileName, desc, k) ==
    IF k > Len(desc.Service) THEN <<>>
    ELSE [j \in 1..Len(desc.Service[k].Method) |->
             [svc |-> newService(fileName, desc, desc.Service[k]),
              md |-> desc.Service[k].Method[j]]]
         \o Flatten(fileName, desc, k + 1)

\* the error that extraction or binding of one declared method ends in, or nil
ErrorOf(m) ==
    IF IsErr(extractAPIOptions(m.md).err) THEN extractAPIOptions(m.md).err
    ELSE IF extractAPIOptions(m.md).val = NoRule THEN NoErr
    ELSE newMethod(m.svc, m.md, extractAPIOptions(m.md).val).err

\* newMethod is called on a declared method
IsBound(m) ==
    ~IsErr(extractAPIOptions(m.md).err) /\ extractAPIOptions(m.md).val # NoRule

\* the index of the first method that fails, or 0
FirstFailing(flat) ==
    IF \A i \in 1..Len(flat) : ~IsErr(ErrorOf(flat[i])) THEN 0
    ELSE CHOOSE i \in 1..Len(flat) :
             IsErr(ErrorOf(flat[i])) /\ \A j \in 1..(i - 1) : ~IsErr(ErrorOf(flat[j]))

MethodDescriptors(methods) == [j \in 1..Len(methods) |-> methods[j].MethodDescriptorProto]
ServiceDescriptors(svcs) == [k \in 1..Len(svcs) |-> svcs[k].ServiceDescriptorProto]

\* C1: a method without an HTTP-rule annotation is in no Service's Methods, and
\* no error loadServices returns is due to one: an error returned for a known
\* file is the error of one of its annotated methods.
C1_UnannotatedSkipped ==
    /\ \A f \in DOMAIN files : \A k \in 1..Len(files[f].Services) :
          \A j \in 1..Len(files[f].Services[k].Methods) :
              ~Unannotated(files[f].Services[k].Methods[j].MethodDescriptorProto)
    /\ (IsCall("loadServices") /\ Failed /\ call.targetFile \in DOMAIN files) =>
          \E k \in 1..Len(files[call.targetFile].desc.Service) :
              \E j \in 1..Len(files[call.targetFile].desc.Service[k].Method) :
                  LET m == [svc |-> newService(call.targetFile, files[call.targetFile].desc,
                                               files[call.targetFile].desc.Service[k]),
                            md |-> files[call.targetFile].desc.Service[k].Method[j]]
                  IN ~Unannotated(m.md) /\ ErrorOf(m) = ret.err

C1_Witness ==
    /\ IsCall("loadServices")
    /\ call.targetFile = "a.proto"
    /\ ~Failed
    /\ Len(files["a.proto"].Services) = 1
    /\ Len(files["a.proto"].Services[1].Methods) = 1
    /\ Len(files["a.proto"].desc.Service) = 1
    /\ Len(files["a.proto"].desc.Service[1].Method) = 3
    /\ files["a.proto"].desc.Service[1].Method[1].Options = OptNil
    /\ files["a.proto"].desc.Service[1].Method[3].Options = OptNoExt

\* C8: after a successful loadServices, file.Services holds the declared
\* services that have an annotated method, in declaration order, each with its
\* annotated methods, one Method each, in declaration order.
C8_ServicesAsDeclared ==
    (IsCall("loadServices") /\ ~Failed) =>
        LET file == files[call.targetFile]
            kept == SelectSeq(file.desc.Service,
                        LAMBDA sd : \E j \in 1..Len(sd.Method) : ~Unannotated(sd.Method[j]))
        IN /\ ServiceDescriptors(file.Services) = kept
           /\ \A k \in 1..Len(file.Services) :
                /\ MethodDescriptors(file.Services[k].Methods)
                     = SelectSeq(kept[k].Method, LAMBDA md : ~Unannotated(md))
                /\ \A j \in 1..Len(file.Services[k].Methods) :
                     file.Services[k].Methods[j].Service = kept[k].Name

C8_Witness ==
    /\ IsCall("loadServices")
    /\ call.targetFile = "a.proto"
    /\ ~Failed
    /\ Len(files["a.proto"].desc.Service) = 2
    /\ Len(files["a.proto"].desc.Service[1].Method) = 1
    /\ Len(files["a.proto"].Services) = 1
    /\ files["a.proto"].Services[1].Name = "S2"
    /\ Len(files["a.proto"].Services[1].Methods) = 2

\* what one call of loadServices(targetFile) does to the files before, given
\* the files, the error and the methods tried after
AllOrNothing(targetFile, before, after, err, tried) ==
    IF targetFile \notin DOMAIN before
    THEN IsErr(err) /\ after = before
    ELSE LET flat == Flatten(targetFile, before[targetFile].desc, 1)
             fail == FirstFailing(flat)
         IN IF fail = 0
            THEN /\ ~IsErr(err)
                 /\ \A f \in DOMAIN before : f # targetFile => after[f] = before[f]
                 /\ after[targetFile].desc = before[targetFile].desc
            ELSE /\ err = ErrorOf(flat[fail])
                 /\ tried = [i \in 1..Len(SelectSeq(SubSeq(flat, 1, fail), IsBound)) |->
                                SelectSeq(SubSeq(flat, 1, fail), IsBound)[i].md.Name]
                 /\ after = before

\* C10: loadServices is all-or-nothing for a file: it returns the error of the
\* first failing method in declaration order, binds no later method and leaves
\* every file as it was; file.Services is assigned only when no method fails;
\* a call on an unknown file returns an error and changes no file.
C10_AllOrNothing ==
    [][AllOrNothing(call'.targetFile, files, files', ret'.err, ret'.tried)]_vars

C10_Witness ==
    /\ IsCall("loadServices")
    /\ call.targetFile = "a.proto"
    /\ Failed
    /\ Len(files["a.proto"].desc.Service) = 2
    /\ Len(files["a.proto"].desc.Service[2].Method) = 2
    /\ ret.tried = <<"M1", "M2">>
    /\ files["a.proto"].Services = <<>>

====
